---- MODULE Spec2Model ----
(***************************************************************************)
(* Model of Tools/Python/phoneme_converter/phoneme_converter.py:           *)
(* PhonemeConverter.clean_rich_text and PhonemeConverter.process_text,     *)
(* with the PyKakasiConverter backend behind to_hiragana.                  *)
(*                                                                         *)
(* A Python str is a sequence of characters; a character is a one-element  *)
(* name.  ASCII characters are written as themselves ("<", "b", "=").      *)
(* Characters outside ASCII are written by name:                           *)
(*   "h:ma"   hiragana ま (h: + the letter's Unicode name; h:small_tu is っ,*)
(*            h:choon is ー, h:vu is ゔ, a hiragana absent from the table)  *)
(*   "k:go"   kanji 吾,  "k:hai" kanji 輩,  "k:neko" kanji 猫                *)
(*   "p:..."  full-width punctuation (p:kuten is 。)                        *)
(*   "s:ideographic" U+3000, the full-width space                          *)
(* The phoneme 'na' is the two-character string <<"n", "a">>.              *)
(***************************************************************************)
EXTENDS Integers, Sequences, FiniteSets, TLC

VARIABLES
    input,          \* the argument of process_text / clean_rich_text
    text,           \* local `text` after clean_rich_text (line 325)
    clean_text,     \* local `clean_text` (line 328)
    idx,            \* position of the for loop of line 337 (1-based)
    phoneme_counts, \* list of str (line 333)
    all_phonemes,   \* list of str (line 334)
    char_hiragana,  \* local `char_hiragana` of the last conversion (line 345)
    char_phonemes,  \* local `char_phonemes` of the last conversion (line 348)
    result,         \* the returned tuple, <<>> while nothing was returned
    dictionary,     \* what the kakasi dictionary answered, per kanji asked
    calls,          \* the arguments to_hiragana was called with, in order
    restripped,     \* clean_rich_text applied to its own output
    pc              \* control position

vars == <<input, text, clean_text, idx, phoneme_counts, all_phonemes,
          char_hiragana, char_phonemes, result, dictionary, calls,
          restripped, pc>>

-----------------------------------------------------------------------------
(* Bounds of the model.                                                    *)

\* An input text is the concatenation of at most MaxParts pieces.
MaxParts == 2

-----------------------------------------------------------------------------
(* Strings.                                                                *)

RECURSIVE Flatten(_)
\* ''.join(list of str)
Flatten(ss) == IF ss = <<>> THEN <<>> ELSE Head(ss) \o Flatten(Tail(ss))

\* Fault: the separator is left out of the join.
JoinWithoutSeparator(ss) == Flatten(ss)

RECURSIVE Join(_)
\* ','.join(list of str)
Join(ss) ==
    IF ss = <<>> THEN <<>>
    ELSE IF Len(ss) = 1 THEN Head(ss)
    ELSE Head(ss) \o <<",">> \o Join(Tail(ss))

DecimalDigit == <<"0", "1", "2", "3", "4", "5", "6", "7", "8", "9">>

RECURSIVE Str(_)
\* str(n) for an int n >= 0
Str(n) ==
    IF n < 10 THEN <<DecimalDigit[n + 1]>>
    ELSE Str(n \div 10) \o <<DecimalDigit[(n % 10) + 1]>>

-----------------------------------------------------------------------------
(* PhonemeConverter.__init__: the hiragana -> phoneme table.               *)

hiragana_phoneme_map ==
     "h:a" :> <<"a">> @@ "h:i" :> <<"i">> @@ "h:u" :> <<"u">> @@ "h:e" :> <<"e">> @@
     "h:o" :> <<"o">> @@ "h:ka" :> <<"a">> @@ "h:ki" :> <<"i">> @@ "h:ku" :> <<"u">> @@
     "h:ke" :> <<"e">> @@ "h:ko" :> <<"o">> @@ "h:ga" :> <<"a">> @@ "h:gi" :> <<"i">> @@
     "h:gu" :> <<"u">> @@ "h:ge" :> <<"e">> @@ "h:go" :> <<"o">> @@ "h:sa" :> <<"a">> @@
     "h:si" :> <<"i">> @@ "h:su" :> <<"u">> @@ "h:se" :> <<"e">> @@ "h:so" :> <<"o">> @@
     "h:za" :> <<"a">> @@ "h:zi" :> <<"i">> @@ "h:zu" :> <<"u">> @@ "h:ze" :> <<"e">> @@
     "h:zo" :> <<"o">> @@ "h:ta" :> <<"a">> @@ "h:ti" :> <<"i">> @@ "h:tu" :> <<"u">> @@
     "h:te" :> <<"e">> @@ "h:to" :> <<"o">> @@ "h:da" :> <<"a">> @@ "h:di" :> <<"i">> @@
     "h:du" :> <<"u">> @@ "h:de" :> <<"e">> @@ "h:do" :> <<"o">> @@ "h:na" :> <<"a">> @@
     "h:ni" :> <<"i">> @@ "h:nu" :> <<"u">> @@ "h:ne" :> <<"e">> @@ "h:no" :> <<"o">> @@
     "h:ha" :> <<"a">> @@ "h:hi" :> <<"i">> @@ "h:hu" :> <<"u">> @@ "h:he" :> <<"e">> @@
     "h:ho" :> <<"o">> @@ "h:ba" :> <<"n", "a">> @@ "h:bi" :> <<"n", "i">> @@ "h:bu" :> <<"n", "u">> @@
     "h:be" :> <<"n", "e">> @@ "h:bo" :> <<"n", "o">> @@ "h:pa" :> <<"n", "a">> @@ "h:pi" :> <<"n", "i">> @@
     "h:pu" :> <<"n", "u">> @@ "h:pe" :> <<"n", "e">> @@ "h:po" :> <<"n", "o">> @@ "h:ma" :> <<"n", "a">> @@
     "h:mi" :> <<"n", "i">> @@ "h:mu" :> <<"n", "u">> @@ "h:me" :> <<"n", "e">> @@ "h:mo" :> <<"n", "o">> @@
     "h:ya" :> <<"a">> @@ "h:yu" :> <<"u">> @@ "h:yo" :> <<"o">> @@ "h:ra" :> <<"a">> @@
     "h:ri" :> <<"i">> @@ "h:ru" :> <<"u">> @@ "h:re" :> <<"e">> @@ "h:ro" :> <<"o">> @@
     "h:wa" :> <<"a">> @@ "h:wi" :> <<"i">> @@ "h:we" :> <<"e">> @@ "h:wo" :> <<"o">> @@
     "h:n" :> <<"n">> @@ "h:small_ya" :> <<"a">> @@ "h:small_yu" :> <<"u">> @@ "h:small_yo" :> <<"o">> @@
     "h:small_tu" :> <<"-">> @@ "h:choon" :> <<"-">>

\* Fault: a glyph absent from the table is passed through, get(c, c).
hiragana_to_phoneme_or_self(hiragana_char) ==
    IF hiragana_char \in DOMAIN hiragana_phoneme_map
    THEN hiragana_phoneme_map[hiragana_char]
    ELSE <<hiragana_char>>

\* Fault: the ま, ば and ぱ rows are mapped like every other row, to the
\* vowel alone.
hiragana_to_phoneme_vowel(hiragana_char) ==
    IF hiragana_char \in DOMAIN hiragana_phoneme_map
    THEN <<hiragana_phoneme_map[hiragana_char]
               [Len(hiragana_phoneme_map[hiragana_char])]>>
    ELSE <<"-">>

\* dict.get(hiragana_char, '-')
hiragana_to_phoneme(hiragana_char) ==
    IF hiragana_char \in DOMAIN hiragana_phoneme_map
    THEN hiragana_phoneme_map[hiragana_char]
    ELSE <<"-">>

-----------------------------------------------------------------------------
(* clean_rich_text: 46 re.sub calls, applied in the order of the source.   *)
(* Each entry is one call: `name` is the tag name, `param` says the open   *)
(* tag is <name=[^>]*> rather than <name>, `close` says the pattern has    *)
(* the alternative </name>, lb/rb are the brackets ("<" ">" or "[" "]").   *)

Tags ==
  <<
    [name |-> <<"b">>, param |-> FALSE, close |-> TRUE, lb |-> "<", rb |-> ">"],
    [name |-> <<"i">>, param |-> FALSE, close |-> TRUE, lb |-> "<", rb |-> ">"],
    [name |-> <<"u">>, param |-> FALSE, close |-> TRUE, lb |-> "<", rb |-> ">"],
    [name |-> <<"s">>, param |-> FALSE, close |-> TRUE, lb |-> "<", rb |-> ">"],
    [name |-> <<"s", "u", "b">>, param |-> FALSE, close |-> TRUE, lb |-> "<", rb |-> ">"],
    [name |-> <<"s", "u", "p">>, param |-> FALSE, close |-> TRUE, lb |-> "<", rb |-> ">"],
    [name |-> <<"m", "a", "r", "k">>, param |-> FALSE, close |-> TRUE, lb |-> "<", rb |-> ">"],
    [name |-> <<"s", "m", "a", "l", "l">>, param |-> FALSE, close |-> TRUE, lb |-> "<", rb |-> ">"],
    [name |-> <<"n", "o", "b", "r">>, param |-> FALSE, close |-> TRUE, lb |-> "<", rb |-> ">"],
    [name |-> <<"c", "o", "l", "o", "r">>, param |-> TRUE, close |-> TRUE, lb |-> "<", rb |-> ">"],
    [name |-> <<"s", "i", "z", "e">>, param |-> TRUE, close |-> TRUE, lb |-> "<", rb |-> ">"],
    [name |-> <<"f", "o", "n", "t">>, param |-> TRUE, close |-> TRUE, lb |-> "<", rb |-> ">"],
    [name |-> <<"m", "a", "t", "e", "r", "i", "a", "l">>, param |-> TRUE, close |-> TRUE, lb |-> "<", rb |-> ">"],
    [name |-> <<"q", "u", "a", "d">>, param |-> TRUE, close |-> FALSE, lb |-> "<", rb |-> ">"],
    [name |-> <<"s", "p", "r", "i", "t", "e">>, param |-> TRUE, close |-> FALSE, lb |-> "<", rb |-> ">"],
    [name |-> <<"s", "p", "a", "c", "e">>, param |-> TRUE, close |-> FALSE, lb |-> "<", rb |-> ">"],
    [name |-> <<"s", "t", "y", "l", "e">>, param |-> TRUE, close |-> TRUE, lb |-> "<", rb |-> ">"],
    [name |-> <<"a", "l", "i", "g", "n">>, param |-> TRUE, close |-> TRUE, lb |-> "<", rb |-> ">"],
    [name |-> <<"a", "l", "p", "h", "a">>, param |-> TRUE, close |-> TRUE, lb |-> "<", rb |-> ">"],
    [name |-> <<"c", "s", "p", "a", "c", "e">>, param |-> TRUE, close |-> TRUE, lb |-> "<", rb |-> ">"],
    [name |-> <<"f", "o", "n", "t", "-", "w", "e", "i", "g", "h", "t">>, param |-> TRUE, close |-> TRUE, lb |-> "<", rb |-> ">"],
    [name |-> <<"i", "n", "d", "e", "n", "t">>, param |-> TRUE, close |-> TRUE, lb |-> "<", rb |-> ">"],
    [name |-> <<"l", "i", "n", "e", "-", "h", "e", "i", "g", "h", "t">>, param |-> TRUE, close |-> TRUE, lb |-> "<", rb |-> ">"],
    [name |-> <<"l", "i", "n", "e", "-", "i", "n", "d", "e", "n", "t">>, param |-> TRUE, close |-> TRUE, lb |-> "<", rb |-> ">"],
    [name |-> <<"l", "i", "n", "k">>, param |-> TRUE, close |-> TRUE, lb |-> "<", rb |-> ">"],
    [name |-> <<"l", "o", "w", "e", "r", "c", "a", "s", "e">>, param |-> FALSE, close |-> TRUE, lb |-> "<", rb |-> ">"],
    [name |-> <<"u", "p", "p", "e", "r", "c", "a", "s", "e">>, param |-> FALSE, close |-> TRUE, lb |-> "<", rb |-> ">"],
    [name |-> <<"s", "m", "a", "l", "l", "c", "a", "p", "s">>, param |-> FALSE, close |-> TRUE, lb |-> "<", rb |-> ">"],
    [name |-> <<"m", "a", "r", "g", "i", "n">>, param |-> TRUE, close |-> TRUE, lb |-> "<", rb |-> ">"],
    [name |-> <<"m", "o", "n", "o", "s", "p", "a", "c", "e">>, param |-> TRUE, close |-> TRUE, lb |-> "<", rb |-> ">"],
    [name |-> <<"m", "s", "p", "a", "c", "e">>, param |-> TRUE, close |-> FALSE, lb |-> "<", rb |-> ">"],
    [name |-> <<"n", "o", "p", "a", "r", "s", "e">>, param |-> FALSE, close |-> TRUE, lb |-> "<", rb |-> ">"],
    [name |-> <<"p", "a", "g", "e">>, param |-> FALSE, close |-> FALSE, lb |-> "<", rb |-> ">"],
    [name |-> <<"p", "o", "s">>, param |-> TRUE, close |-> FALSE, lb |-> "<", rb |-> ">"],
    [name |-> <<"r", "o", "t", "a", "t", "e">>, param |-> TRUE, close |-> TRUE, lb |-> "<", rb |-> ">"],
    [name |-> <<"s", "t", "r", "i", "k", "e", "t", "h", "r", "o", "u", "g", "h">>, param |-> FALSE, close |-> TRUE, lb |-> "<", rb |-> ">"],
    [name |-> <<"u", "n", "d", "e", "r", "l", "i", "n", "e">>, param |-> FALSE, close |-> TRUE, lb |-> "<", rb |-> ">"],
    [name |-> <<"v", "o", "f", "f", "s", "e", "t">>, param |-> TRUE, close |-> TRUE, lb |-> "<", rb |-> ">"],
    [name |-> <<"w", "i", "d", "t", "h">>, param |-> TRUE, close |-> TRUE, lb |-> "<", rb |-> ">"],
    [name |-> <<"s", "h", "a", "k", "e">>, param |-> FALSE, close |-> TRUE, lb |-> "[", rb |-> "]"],
    [name |-> <<"b", "o", "u", "n", "c", "e">>, param |-> FALSE, close |-> TRUE, lb |-> "[", rb |-> "]"],
    [name |-> <<"f", "a", "d", "e">>, param |-> FALSE, close |-> TRUE, lb |-> "[", rb |-> "]"],
    [name |-> <<"v", "o", "i", "c", "e">>, param |-> TRUE, close |-> TRUE, lb |-> "[", rb |-> "]"],
    [name |-> <<"s", "p", "e", "e", "d">>, param |-> TRUE, close |-> TRUE, lb |-> "[", rb |-> "]"],
    [name |-> <<"w", "a", "i", "t">>, param |-> TRUE, close |-> FALSE, lb |-> "[", rb |-> "]"],
    [name |-> <<"e", "m", "o", "t", "i", "o", "n">>, param |-> TRUE, close |-> TRUE, lb |-> "[", rb |-> "]"]
  >>

\* s[p .. p+Len(lit)-1] = lit
LiteralAt(lit, s, p) ==
    /\ p + Len(lit) - 1 <= Len(s)
    /\ \A k \in 1..Len(lit) : s[p + k - 1] = lit[k]

\* Length of the match of the open alternative at position p, 0 when there
\* is none.  [^>]* followed by > ends at the first > at or after the "=".
OpenMatch(tag, s, p) ==
    LET n == Len(tag.name) IN
    IF ~ LiteralAt(<<tag.lb>> \o tag.name, s, p) THEN 0
    ELSE IF ~ tag.param
         THEN IF LiteralAt(<<tag.rb>>, s, p + n + 1) THEN n + 2 ELSE 0
         ELSE IF ~ LiteralAt(<<"=">>, s, p + n + 1) THEN 0
              ELSE LET ends == {q \in (p + n + 2)..Len(s) : s[q] = tag.rb}
                   IN  IF ends = {} THEN 0
                       ELSE (CHOOSE q \in ends : \A r \in ends : q <= r) - p + 1

\* Length of the match of the close alternative at position p, 0 when none.
CloseMatch(tag, s, p) ==
    IF tag.close /\ LiteralAt(<<tag.lb, "/">> \o tag.name \o <<tag.rb>>, s, p)
    THEN Len(tag.name) + 3
    ELSE 0

\* Length of the match of the pattern `open|close` at position p.
MatchAt(tag, s, p) ==
    IF OpenMatch(tag, s, p) > 0 THEN OpenMatch(tag, s, p)
    ELSE CloseMatch(tag, s, p)

RECURSIVE SubFrom(_, _, _)
\* re.sub(pattern, '', s) from position p on: leftmost non-overlapping
\* matches are dropped, every other character is kept.  (q \in {..} binds
\* the next position to its value before the recursive call.)
SubFrom(tag, s, p) ==
    IF p > Len(s) THEN <<>>
    ELSE LET m == MatchAt(tag, s, p) IN
         IF m > 0
         THEN CHOOSE r \in {SubFrom(tag, s, q) : q \in {p + m}} : TRUE
         ELSE CHOOSE r \in {<<s[p]>> \o SubFrom(tag, s, q) : q \in {p + 1}} : TRUE

\* text = re.sub(pattern, '', text)
Sub(tag, s) == SubFrom(tag, s, 1)

RECURSIVE SubAll(_, _)
\* the calls from number k to the last, in order
SubAll(k, s) ==
    IF k > Len(Tags) THEN s
    ELSE CHOOSE r \in {SubAll(k + 1, t) : t \in {Sub(Tags[k], s)}} : TRUE

clean_rich_text(s) == SubAll(1, s)

-----------------------------------------------------------------------------
(* process_text: the character classes of lines 328 and 339.               *)

\* What \s matches in a str pattern, among the characters of the model.
whitespace == {" ", "\t", "\n", "\r", "\f", "s:ideographic"}

\* Fault: only the space and the tab are removed.
RemoveBlanksOnly(s) == SelectSeq(s, LAMBDA c : c \notin {" ", "\t"})

\* re.sub(r'[\r\n\s]', '', text)
RemoveWhitespace(s) == SelectSeq(s, LAMBDA c : c \notin whitespace)

\* The literal of line 339.  It is two adjacent literals, '...""' and
\* '…‥・', so it holds the double quote and not the apostrophe.
punctuation ==
    {".", ",", "p:kuten", "p:touten", "p:fw_exclamation", "p:fw_question",
     "!", "?", "p:fw_semicolon", ";", "p:fw_colon", ":",
     "p:left_corner", "p:right_corner",
     "p:left_white_corner", "p:right_white_corner",
     "(", ")", "p:fw_left_paren", "p:fw_right_paren", "[", "]",
     "p:left_lenticular", "p:right_lenticular",
     "p:left_angle", "p:right_angle",
     "p:left_double_angle", "p:right_double_angle",
     "\"", "p:ellipsis", "p:two_dot_leader", "p:middle_dot"}

-----------------------------------------------------------------------------
(* PyKakasiConverter.to_hiragana.  The converter is set up with the modes  *)
(* J -> H and K -> H only: a kanji is answered with the reading the kakasi *)
(* dictionary holds for it, every other character comes back unchanged.    *)
(* The dictionary is outside the repository: its answer for a kanji is any *)
(* of Readings, or an exception, and is the same each time it is asked.    *)

Kanji == {"k:go", "k:hai", "k:neko"}

Readings ==
    { <<"h:wa", "h:ga">>,                 \* わが
      <<"h:ha", "h:i">>,                  \* はい
      <<"h:ne", "h:ko">>,                 \* ねこ
      <<"h:u", "h:ma">>,                  \* うま
      <<"h:ki", "h:small_tu", "h:pu">>,   \* きっぷ
      <<"h:vu">>,                         \* ゔ
      <<>>,
      <<"h:a", "h:i", "h:u", "h:e", "h:o",
        "h:ka", "h:ki", "h:ku", "h:ke", "h:ko">> }

Returned(kana) == [ok |-> TRUE, kana |-> kana]
Raised == [ok |-> FALSE, kana |-> <<>>]

\* The outcomes of self.converter.to_hiragana(char) in the current state.
to_hiragana(char) ==
    IF char \in Kanji
    THEN IF char \in DOMAIN dictionary
         THEN {dictionary[char]}
         ELSE {Returned(r) : r \in Readings} \cup {Raised}
    ELSE {Returned(<<char>>)}

\* The dictionary after it answered `outcome` for `char`.
Asked(char, outcome) ==
    IF char \in Kanji THEN (char :> outcome) @@ dictionary ELSE dictionary

-----------------------------------------------------------------------------
(* Input texts.                                                            *)

Pieces ==
    { <<"k:go">>, <<"k:neko">>, <<"h:ha">>, <<"h:ma">>, <<"h:small_tu">>,
      <<"p:kuten">>, <<" ">>, <<"\n">>, <<"s:ideographic">>,
      <<"<", "/", "b", ">">>,
      <<"<", "p", "o", "s", "=", "1", ">">>,
      <<"[", "w", "a", "i", "t", "=", "1", "]">>,
      <<"<", "<", "i", ">", "b", ">">>,
      <<"<", "p", "o", "s", "=", "<", "b", ">">> }

\* 吾輩は猫である。 (the usage example of the module docstring)
DocText ==
    <<"k:go", "k:hai", "h:ha", "k:neko", "h:de", "h:a", "h:ru", "p:kuten">>

\* 吾 newline <b>ま</b> space 猫。
MixedText ==
    <<"k:go", "\n", "<", "b", ">", "h:ma", "<", "/", "b", ">", " ",
      "k:neko", "p:kuten">>

Texts ==
    {Flatten(ps) : ps \in UNION {[1..n -> Pieces] : n \in 0..MaxParts}}
        \cup {DocText, MixedText}

-----------------------------------------------------------------------------
(* process_text, one action per step.                                      *)

Init ==
    /\ input \in Texts
    /\ text = <<>>
    /\ clean_text = <<>>
    /\ idx = 0
    /\ phoneme_counts = <<>>
    /\ all_phonemes = <<>>
    /\ char_hiragana = <<>>
    /\ char_phonemes = <<>>
    /\ result = <<>>
    /\ dictionary = <<>>
    /\ calls = <<>>
    /\ restripped = <<>>
    /\ pc = "start"

\* Lines 324-335: strip the tags, drop the whitespace, return ("0", "-")
\* when nothing is left, otherwise enter the loop.
Clean ==
    /\ pc = "start"
    /\ text' = clean_rich_text(input)
    /\ clean_text' = RemoveWhitespace(text')
    /\ IF clean_text' = <<>>
       THEN /\ result' = << <<"0">>, <<"-">> >>
            /\ pc' = "done"
            /\ idx' = idx
       ELSE /\ result' = result
            /\ pc' = "loop"
            /\ idx' = 1
    /\ UNCHANGED <<input, phoneme_counts, all_phonemes, char_hiragana,
                   char_phonemes, dictionary, calls, restripped>>

\* Fault: the punctuation test is missing, the character goes to the
\* backend like any other.
PunctuationThroughBackend ==
    /\ pc = "loop"
    /\ idx <= Len(clean_text)
    /\ clean_text[idx] \in punctuation
    /\ calls' = Append(calls, clean_text[idx])
    /\ char_hiragana' = <<clean_text[idx]>>
    /\ char_phonemes' = <<>>
    /\ phoneme_counts' = Append(phoneme_counts, <<"1">>)
    /\ all_phonemes' = Append(all_phonemes, <<"-">>)
    /\ idx' = idx + 1
    /\ UNCHANGED <<input, text, clean_text, result, dictionary, restripped,
                   pc>>

\* Lines 339-342: a punctuation character.
Punctuation ==
    /\ pc = "loop"
    /\ idx <= Len(clean_text)
    /\ clean_text[idx] \in punctuation
    /\ phoneme_counts' = Append(phoneme_counts, <<"1">>)
    /\ all_phonemes' = Append(all_phonemes, <<"-">>)
    /\ idx' = idx + 1
    /\ UNCHANGED <<input, text, clean_text, char_hiragana, char_phonemes,
                   result, dictionary, calls, restripped, pc>>

\* Fault: the test phoneme != '-' is missing.
PhonemesWithDashes(hiragana) ==
    [k \in 1..Len(hiragana) |-> hiragana_to_phoneme(hiragana[k])]

\* Lines 348-352: the phonemes of a reading, '-' left out.
Phonemes(hiragana) ==
    SelectSeq([k \in 1..Len(hiragana) |-> hiragana_to_phoneme(hiragana[k])],
              LAMBDA phoneme : phoneme # <<"-">>)

\* Line 355
phoneme_count(phonemes) == IF phonemes # <<>> THEN Len(phonemes) ELSE 1

\* Fault: the phonemes of a character are put in front of the list.
ExtendedAtFront(phonemes) ==
    IF phonemes # <<>> THEN phonemes \o all_phonemes
    ELSE Append(all_phonemes, <<"-">>)

\* Lines 359-362
Extended(phonemes) ==
    IF phonemes # <<>> THEN all_phonemes \o phonemes
    ELSE Append(all_phonemes, <<"-">>)

\* Lines 345-362: any other character, to_hiragana returns.
Convert ==
    /\ pc = "loop"
    /\ idx <= Len(clean_text)
    /\ clean_text[idx] \notin punctuation
    /\ \E outcome \in to_hiragana(clean_text[idx]) :
          /\ outcome.ok
          /\ dictionary' = Asked(clean_text[idx], outcome)
          /\ char_hiragana' = outcome.kana
    /\ calls' = Append(calls, clean_text[idx])
    /\ char_phonemes' = Phonemes(char_hiragana')
    /\ phoneme_counts' =
          Append(phoneme_counts, Str(phoneme_count(char_phonemes')))
    /\ all_phonemes' = Extended(char_phonemes')
    /\ idx' = idx + 1
    /\ UNCHANGED <<input, text, clean_text, result, restripped, pc>>

\* Fault: the exception is caught and the character handled as one with an
\* empty reading.
ConvertSwallowsException ==
    /\ pc = "loop"
    /\ idx <= Len(clean_text)
    /\ clean_text[idx] \notin punctuation
    /\ \E outcome \in to_hiragana(clean_text[idx]) :
          /\ ~ outcome.ok
          /\ dictionary' = Asked(clean_text[idx], outcome)
    /\ calls' = Append(calls, clean_text[idx])
    /\ char_hiragana' = <<>>
    /\ char_phonemes' = <<>>
    /\ phoneme_counts' = Append(phoneme_counts, <<"1">>)
    /\ all_phonemes' = Append(all_phonemes, <<"-">>)
    /\ idx' = idx + 1
    /\ UNCHANGED <<input, text, clean_text, result, restripped, pc>>

\* Line 345, to_hiragana raises: nothing catches it, process_text ends.
ConvertRaises ==
    /\ pc = "loop"
    /\ idx <= Len(clean_text)
    /\ clean_text[idx] \notin punctuation
    /\ \E outcome \in to_hiragana(clean_text[idx]) :
          /\ ~ outcome.ok
          /\ dictionary' = Asked(clean_text[idx], outcome)
    /\ calls' = Append(calls, clean_text[idx])
    /\ pc' = "raised"
    /\ UNCHANGED <<input, text, clean_text, idx, phoneme_counts,
                   all_phonemes, char_hiragana, char_phonemes, result,
                   restripped>>

\* Lines 365-368
Return ==
    /\ pc = "loop"
    /\ idx > Len(clean_text)
    /\ result' = << Flatten(phoneme_counts),
                    IF all_phonemes # <<>> THEN Join(all_phonemes)
                    ELSE <<"-">> >>
    /\ pc' = "done"
    /\ UNCHANGED <<input, text, clean_text, idx, phoneme_counts,
                   all_phonemes, char_hiragana, char_phonemes, dictionary,
                   calls, restripped>>

Next == Clean \/ Punctuation \/ Convert \/ ConvertRaises \/ Return

Spec == Init /\ [][Next]_vars

-----------------------------------------------------------------------------
(* clean_rich_text on its own, applied to an input and then to its own     *)
(* output.                                                                 *)

StripOnce ==
    /\ pc = "start"
    /\ text' = clean_rich_text(input)
    /\ pc' = "stripped"
    /\ UNCHANGED <<input, clean_text, idx, phoneme_counts, all_phonemes,
                   char_hiragana, char_phonemes, result, dictionary, calls,
                   restripped>>

StripAgain ==
    /\ pc = "stripped"
    /\ restripped' = clean_rich_text(text)
    /\ pc' = "restripped"
    /\ UNCHANGED <<input, text, clean_text, idx, phoneme_counts,
                   all_phonemes, char_hiragana, char_phonemes, result,
                   dictionary, calls>>

NextStrip == StripOnce \/ StripAgain

SpecStrip == Init /\ [][NextStrip]_vars

-----------------------------------------------------------------------------
(* Vocabulary of the properties.                                           *)

RECURSIVE Split(_)
\* s.split(',')
Split(s) ==
    LET commas == {k \in 1..Len(s) : s[k] = ","} IN
    IF commas = {} THEN <<s>>
    ELSE LET c == CHOOSE k \in commas : \A j \in commas : k <= j IN
         CHOOSE r \in {<<SubSeq(s, 1, c - 1)>> \o Split(rest) :
                          rest \in {SubSeq(s, c + 1, Len(s))}} : TRUE

\* The characters left after tag stripping and whitespace removal.
Remaining == SelectSeq(clean_rich_text(input), LAMBDA c : c \notin whitespace)

\* The reading the backend gave for a character it was asked about.
ReadingOf(c) == IF c \in Kanji THEN dictionary[c].kana ELSE <<c>>

\* The glyphs of a reading whose table phoneme is not "-".
KeptGlyphs(reading) ==
    SelectSeq(reading, LAMBDA g : /\ g \in DOMAIN hiragana_phoneme_map
                                  /\ hiragana_phoneme_map[g] # <<"-">>)

\* The tokens and the count a processed character stands for.
TokensOf(c) ==
    IF c \in punctuation \/ KeptGlyphs(ReadingOf(c)) = <<>> THEN << <<"-">> >>
    ELSE [k \in 1..Len(KeptGlyphs(ReadingOf(c))) |->
             hiragana_phoneme_map[KeptGlyphs(ReadingOf(c))[k]]]

CountOf(c) == Len(TokensOf(c))

RECURSIVE DecimalLength(_)
DecimalLength(n) == IF n < 10 THEN 1 ELSE 1 + DecimalLength(n \div 10)

DigitValue(d) == (CHOOSE k \in 1..10 : DecimalDigit[k] = d) - 1

RECURSIVE DigitSum(_, _)
\* the sum of the first n digits of a digit string
DigitSum(digits, n) ==
    IF n = 0 THEN 0 ELSE DigitSum(digits, n - 1) + DigitValue(digits[n])

RECURSIVE CountSum(_)
\* the sum of the counts of the first n characters of clean_text
CountSum(n) == IF n = 0 THEN 0 ELSE CountSum(n - 1) + CountOf(clean_text[n])

\* to_hiragana was the last thing done for the character before idx.
LastConverted ==
    /\ pc \in {"loop", "done"}
    /\ idx > 1
    /\ clean_text[idx - 1] \notin punctuation

\* The last n elements of a sequence.
LastN(seq, n) == SubSeq(seq, Len(seq) - n + 1, Len(seq))

SevenPhonemes ==
    { <<"a">>, <<"i">>, <<"u">>, <<"e">>, <<"o">>, <<"n">>, <<"-">> }

BilabialTokens ==
    { <<"n", "a">>, <<"n", "i">>, <<"n", "u">>, <<"n", "e">>, <<"n", "o">> }

\* The vowel of a kana of the ま, ば and ぱ rows.
BilabialVowel ==
    [g \in {"h:ma", "h:ba", "h:pa"} |-> "a"] @@
    [g \in {"h:mi", "h:bi", "h:pi"} |-> "i"] @@
    [g \in {"h:mu", "h:bu", "h:pu"} |-> "u"] @@
    [g \in {"h:me", "h:be", "h:pe"} |-> "e"] @@
    [g \in {"h:mo", "h:bo", "h:po"} |-> "o"]

Bilabial == DOMAIN BilabialVowel

-----------------------------------------------------------------------------
(* C1.  The count string and the number of characters left.                *)

\* C1 as stated: when process_text returns, the count string has exactly as
\* many characters as the text has characters left after clean_rich_text and
\* whitespace removal, and is "0" when nothing is left.
C1_OneDigitPerCharacter ==
    pc = "done" =>
        \A left \in {Remaining} :
            IF left = <<>> THEN result[1] = <<"0">>
            ELSE Len(result[1]) = Len(left)

RECURSIVE DecimalLengthSum(_, _)
\* the decimal lengths of the counts of the first n of chars, added up
DecimalLengthSum(chars, n) ==
    IF n = 0 THEN 0
    ELSE DecimalLengthSum(chars, n - 1) + DecimalLength(CountOf(chars[n]))

\* C1 amended: when process_text returns, the count string is "0" when
\* nothing is left; otherwise its length is the sum, over the characters
\* left, of the number of decimal digits of the character's count, which is
\* the number of characters left when every count is at most 9.
C1_DecimalLengths ==
    pc = "done" =>
        \A left \in {Remaining} :
            IF left = <<>> THEN result[1] = <<"0">>
            ELSE /\ Len(result[1]) = DecimalLengthSum(left, Len(left))
                 /\ (\A i \in 1..Len(left) : CountOf(left[i]) <= 9)
                        => Len(result[1]) = Len(left)

C1_Witness ==
    /\ pc = "done"
    /\ \E left \in {Remaining} :
          /\ Len(left) >= 2
          /\ \E i \in 1..Len(left) : CountOf(left[i]) >= 10
          /\ \E i \in 1..Len(left) : CountOf(left[i]) = 2
          /\ Len(input) > Len(left)

-----------------------------------------------------------------------------
(* C2.  The tokens of the phoneme string.                                  *)

-----------------------------------------------------------------------------
(* C3.  A bilabial kana in a reading.                                      *)

RECURSIVE TwoTokenStream(_)
\* The stream of a reading when a bilabial kana gives the two tokens
\* n and its vowel.
TwoTokenStream(glyphs) ==
    IF glyphs = <<>> THEN <<>>
    ELSE (IF Head(glyphs) \in Bilabial
          THEN << <<"n">>, <<BilabialVowel[Head(glyphs)]>> >>
          ELSE << hiragana_phoneme_map[Head(glyphs)] >>)
         \o TwoTokenStream(Tail(glyphs))

-----------------------------------------------------------------------------
(* C4.  Inputs of recognized tags and whitespace only.                     *)

RECURSIVE TagsAndWhitespaceFrom(_, _)
\* s from position p on is a concatenation of whitespace characters and of
\* strings that one of the 46 patterns matches.
TagsAndWhitespaceFrom(s, p) ==
    \/ p > Len(s)
    \/ /\ p <= Len(s)
       /\ s[p] \in whitespace
       /\ \E q \in {p + 1} : TagsAndWhitespaceFrom(s, q)
    \/ \E k \in 1..Len(Tags) :
          /\ MatchAt(Tags[k], s, p) > 0
          /\ \E q \in {p + MatchAt(Tags[k], s, p)} : TagsAndWhitespaceFrom(s, q)

\* C4: process_text returns ("0", "-") for every input that is empty or made
\* of recognized tags and whitespace only, without calling the backend; and
\* whitespace in any other input adds no digit and no token.
C4_TagsAndWhitespaceGiveSentinel ==
    /\ (TagsAndWhitespaceFrom(input, 1) /\ pc # "start")
          => /\ pc = "done"
             /\ result = << <<"0">>, <<"-">> >>
             /\ calls = <<>>
    /\ pc \in {"loop", "done", "raised"}
          => /\ \A i \in 1..Len(clean_text) : clean_text[i] \notin whitespace
             /\ Len(phoneme_counts) <= Len(clean_text)

-----------------------------------------------------------------------------
(* C5.  Punctuation characters.                                            *)

\* C5: a step taken at a character of the punctuation set appends the digit
\* 1 to the counts and the single token - to the stream, and does not call
\* to_hiragana; so to_hiragana is never called with such a character.
C5_PunctuationStep ==
    [][(pc = "loop" /\ idx <= Len(clean_text) /\ clean_text[idx] \in punctuation)
          => /\ phoneme_counts' = Append(phoneme_counts, <<"1">>)
             /\ all_phonemes' = Append(all_phonemes, <<"-">>)
             /\ calls' = calls
             /\ \A k \in 1..Len(calls') : calls'[k] \notin punctuation]_vars

C5_Witness ==
    /\ pc = "done"
    /\ calls # <<>>
    /\ \E i \in 1..Len(clean_text) :
          /\ clean_text[i] \in punctuation
          /\ phoneme_counts[i] = <<"1">>
          /\ i < Len(clean_text)

-----------------------------------------------------------------------------
(* C6.  The count and the phonemes of a converted character.               *)

\* C6: after a conversion, the count recorded is the number of glyphs of the
\* reading whose table phoneme is not -, the stream ends with their phonemes
\* in reading order, and with no such glyph the count is 1 and the stream
\* ends with one -; every - of the stream is at the place of a punctuation
\* character or of a character with no such glyph.
C6_CountAndPhonemes ==
    /\ LastConverted =>
          LET kept == KeptGlyphs(char_hiragana) IN
          /\ char_hiragana = ReadingOf(clean_text[idx - 1])
          /\ Len(all_phonemes) = CountSum(idx - 1)
          /\ IF kept = <<>>
             THEN /\ phoneme_counts[idx - 1] = <<"1">>
                  /\ LastN(all_phonemes, 1) = << <<"-">> >>
             ELSE /\ phoneme_counts[idx - 1] = Str(Len(kept))
                  /\ LastN(all_phonemes, Len(kept))
                        = [k \in 1..Len(kept) |-> hiragana_phoneme_map[kept[k]]]
    /\ pc \in {"loop", "done"} =>
          \A i \in 1..(idx - 1) :
              \A j \in (CountSum(i - 1) + 1)..CountSum(i) :
                  (j <= Len(all_phonemes) /\ all_phonemes[j] = <<"-">>)
                      => \/ clean_text[i] \in punctuation
                         \/ KeptGlyphs(ReadingOf(clean_text[i])) = <<>>

C6_Witness ==
    /\ LastConverted
    /\ Len(char_hiragana) = 3
    /\ Len(KeptGlyphs(char_hiragana)) = 2
    /\ \E i \in 1..(idx - 2) :
          /\ clean_text[i] \in Kanji
          /\ KeptGlyphs(ReadingOf(clean_text[i])) = <<>>

-----------------------------------------------------------------------------
(* C7.  Tag stripping applied twice.                                       *)

\* C7: tag stripping is idempotent: stripping the output of clean_rich_text
\* once more changes nothing, that is, one pass leaves no recognized tag
\* behind, also for a tag written inside the brackets of another.
C7_StripIdempotent == pc = "restripped" => restripped = text

-----------------------------------------------------------------------------
(* C8.  The usage example of the module docstring.                         *)

DocDictionary ==
    /\ DOMAIN dictionary = Kanji
    /\ dictionary["k:go"] = Returned(<<"h:wa", "h:ga">>)
    /\ dictionary["k:hai"] = Returned(<<"h:ha", "h:i">>)
    /\ dictionary["k:neko"] = Returned(<<"h:ne", "h:ko">>)

-----------------------------------------------------------------------------
(* C9.  A failing backend.                                                 *)

\* The non-punctuation characters among the first n of clean_text.
Converted(n) ==
    SelectSeq(SubSeq(clean_text, 1, n), LAMBDA c : c \notin punctuation)

\* C9: when to_hiragana has failed for a character, that call is the last
\* one made, it was made once, for the character the loop is at, and
\* process_text has ended without a result.
C9_FailurePropagates ==
    \A k \in 1..Len(calls) :
        (calls[k] \in Kanji /\ ~ dictionary[calls[k]].ok)
            => /\ k = Len(calls)
               /\ pc = "raised"
               /\ result = <<>>
               /\ calls = Converted(idx)

C9_Witness ==
    /\ pc = "raised"
    /\ Len(calls) >= 2
    /\ Len(phoneme_counts) >= 2
    /\ idx < Len(clean_text)

-----------------------------------------------------------------------------
(* C10.  Alignment of the two returned strings.                            *)

\* C10: when process_text returns for a non-empty cleaned text whose counts
\* are all at most 9, the count string has one digit per character, the
\* digits add up to the number of comma-separated tokens, and the tokens of
\* the i-th character are the tokens from the sum of the first i-1 digits
\* on, as many as digit i says.
C10_Aligned ==
    (/\ pc = "done"
     /\ clean_text # <<>>
     /\ \A i \in 1..Len(clean_text) : CountOf(clean_text[i]) <= 9)
        => LET digits == result[1]
               tokens == Split(result[2])
           IN  /\ Len(digits) = Len(clean_text)
               /\ DigitSum(digits, Len(digits)) = Len(tokens)
               /\ \A i \in 1..Len(digits) :
                     SubSeq(tokens, DigitSum(digits, i - 1) + 1,
                            DigitSum(digits, i))
                         = TokensOf(clean_text[i])

C10_Witness ==
    /\ pc = "done"
    /\ Len(clean_text) >= 3
    /\ \A i \in 1..Len(clean_text) : CountOf(clean_text[i]) <= 9
    /\ CountOf(clean_text[1]) = 2
    /\ CountOf(clean_text[2]) = 1
    /\ TokensOf(clean_text[3]) # TokensOf(clean_text[1])
=============================================================================
